---- MODULE Spec2Model ----
(***************************************************************************)
(* cc-init: deployment of the embedded ".claude" template tree into a      *)
(* target directory.  The model follows main.go, the CLI configuration,    *)
(* engine.go, the template manager and the two FileSystem implementations. *)
(*                                                                         *)
(* Paths are sequences of names.  A host path is relative to the target    *)
(* directory (<<>> is the target directory itself); an embedded path       *)
(* starts with the prefix ".claude".  Storage errors arise from the state  *)
(* of the disk (a regular file where a directory is needed); the model     *)
(* has no transient I/O faults and no concurrent process.                  *)
(***************************************************************************)
EXTENDS Integers, Sequences, FiniteSets, TLC

VARIABLES
  assets,       \* the embedded tree: kind of every embedded path
  disk,         \* the host filesystem under the target directory
  cfg,          \* Config: DryRun, Verbose, NoColor
  pc,           \* position of the process: main, validateConfig, Run
  stats,        \* Engine.stats
  todo,         \* callback invocations fs.WalkDir has still to make
  visits,       \* per relative path, calls of processDirectory/processFile
  listed,       \* what ListTemplates returned to the verbose listing
  errlog,       \* per error line on stderr, the path of the entry it reports
  summary,      \* what showSummary reported
  aborted,      \* how Run was cut short: "none", "no_templates", "walk"
  result,       \* what Run returned: "none" (not yet), "nil", "err"
  exit,         \* exit status of the process, -1 while it runs
  invocations,  \* processes started so far
  disk0,        \* the disk when the process started
  diskRun,      \* the disk when Engine.Run was entered
  prev,         \* the previous process: its statistics, result, final disk
  call,         \* a single call of one function: its argument and what it gave
  fscalls       \* calls the engine has made on its FileSystem and templates

vars == <<assets, disk, cfg, pc, stats, todo, visits, listed, errlog, summary,
          aborted, result, exit, invocations, disk0, diskRun, prev, call,
          fscalls>>

(* ---------------------------- bounds ----------------------------------- *)

\* number of times the tool is invoked in one behaviour
MaxInvocations == 2
\* number of elements of a path handed to a single call
MaxArgLen == 3
\* number of characters of a relative path handed to GetDefaultFileMode
MaxPathChars == 5

(* ------------------------ program constants ---------------------------- *)

\* 0755 and 0644
ExecMode == 493
DataMode == 420
\* 0666, the mode os.Create asks for
CreateMode == 438

Prefix == ".claude"
TestFileName == ".cc-init-test"

(* --------------------------- path universe ----------------------------- *)

\* names in the order ReadDir yields them (sorted by name)
SortedNames == <<"ask.md", "commands", "run.sh", "settings.json">>

\* the relative paths a template tree may hold: the layout of the README,
\* with a script among the commands
RelPaths == {<<"commands">>, <<"commands", "ask.md">>, <<"commands", "run.sh">>,
             <<"settings.json">>}
EmbedPaths == {<<Prefix>>} \cup {<<Prefix>> \o r : r \in RelPaths}
TargetDir == << >>
\* the absolute path validateConfig resolves the target directory to
AbsTargetDir == <<"proj">>
TestFile == <<TestFileName>>
DiskPaths == {TargetDir, TestFile} \cup EmbedPaths

Parent(p) == SubSeq(p, 1, Len(p) - 1)
IsChild(c, p) == Len(c) = Len(p) + 1 /\ SubSeq(c, 1, Len(p)) = p
NameIndex(n) == CHOOSE i \in 1..Len(SortedNames) : SortedNames[i] = n

NoNode == [kind |-> "none", content |-> "", mode |-> 0]
DirNode(perm) == [kind |-> "dir", content |-> "", mode |-> perm]
FileNode(c, perm) == [kind |-> "file", content |-> c, mode |-> perm]

\* the bytes of the template at an embedded path
Body(p) ==
  CASE p = <<Prefix, "settings.json">> -> "settings-body"
    [] p = <<Prefix, "commands", "ask.md">> -> "ask-body"
    [] p = <<Prefix, "commands", "run.sh">> -> "run-body"
    [] OTHER -> "commands-body"

(* ------------------------------ os ------------------------------------- *)

\* every proper ancestor of p is a directory
Resolvable(d, p) == \A i \in 0..(Len(p) - 1) : d[SubSeq(p, 1, i)].kind = "dir"

\* os.Stat: fails with ENOENT or ENOTDIR
osStat(d, p) ==
  IF Resolvable(d, p) /\ d[p].kind # "none"
  THEN [ok |-> TRUE, isDir |-> d[p].kind = "dir"]
  ELSE [ok |-> FALSE, isDir |-> FALSE]

\* os.Mkdir
osMkdir(d, p, perm) ==
  IF ~Resolvable(d, p) THEN [disk |-> d, err |-> "storage"]
  ELSE IF d[p].kind # "none"
    THEN [disk |-> d, err |-> IF d[p].kind = "dir" THEN "nil" ELSE "storage"]
    ELSE [disk |-> [d EXCEPT ![p] = DirNode(perm)], err |-> "nil"]

\* os.MkdirAll: stat first, then the parents, then the directory itself
RECURSIVE osMkdirAll(_, _, _)
osMkdirAll(d, p, perm) ==
  LET st == osStat(d, p) IN
  IF st.ok
  THEN [disk |-> d, err |-> IF st.isDir THEN "nil" ELSE "storage"]
  ELSE LET par == IF Len(p) > 0 THEN osMkdirAll(d, Parent(p), perm)
                  ELSE [disk |-> d, err |-> "nil"]
       IN IF par.err # "nil" THEN par ELSE osMkdir(par.disk, p, perm)

\* os.OpenFile(O_WRONLY|O_CREATE|O_TRUNC) followed by a full write:
\* os.WriteFile and os.Create share it
osWriteFile(d, p, content, perm) ==
  IF ~Resolvable(d, p) \/ d[p].kind = "dir"
  THEN [disk |-> d, err |-> "storage"]
  ELSE IF d[p].kind = "file"
    THEN [disk |-> [d EXCEPT ![p].content = content], err |-> "nil"]
    ELSE [disk |-> [d EXCEPT ![p] = FileNode(content, perm)], err |-> "nil"]

\* os.Remove: a file or an empty directory
osRemove(d, p) ==
  IF Resolvable(d, p) /\ d[p].kind # "none"
     /\ \A c \in DiskPaths : IsChild(c, p) => d[c].kind = "none"
  THEN [d EXCEPT ![p] = NoNode]
  ELSE d

(* ---------------------- OSFileSystem (fs.go) ---------------------------- *)

\* OSExists with the test of the error inverted
OSExists_Inverted(d, p) == ~osStat(d, p).ok

OSExists(d, p) == osStat(d, p).ok

OSStat(d, p) == osStat(d, p)

\* CreateDir with os.Mkdir in the place of os.MkdirAll
OSCreateDir_Mkdir(d, p, perm) ==
  IF OSExists(d, p)
  THEN LET info == osStat(d, p) IN
       IF ~info.ok THEN [disk |-> d, err |-> "stat"]
       ELSE IF ~info.isDir THEN [disk |-> d, err |-> "not_a_directory"]
       ELSE [disk |-> d, err |-> "nil"]
  ELSE osMkdir(d, p, perm)

OSCreateDir(d, p, perm) ==
  IF OSExists(d, p)
  THEN LET info == osStat(d, p) IN
       IF ~info.ok THEN [disk |-> d, err |-> "stat"]
       ELSE IF ~info.isDir THEN [disk |-> d, err |-> "not_a_directory"]
       ELSE [disk |-> d, err |-> "nil"]
  ELSE osMkdirAll(d, p, perm)

\* CreateFile that writes without making the parent directory first
OSCreateFile_NoParent(d, p, content, perm) ==
  IF OSExists(d, p)
  THEN LET info == osStat(d, p) IN
       IF ~info.ok THEN [disk |-> d, err |-> "stat"]
       ELSE IF info.isDir THEN [disk |-> d, err |-> "is_a_directory"]
       ELSE [disk |-> d, err |-> "nil"]
  ELSE osWriteFile(d, p, content, perm)

OSCreateFile(d, p, content, perm) ==
  IF OSExists(d, p)
  THEN LET info == osStat(d, p) IN
       IF ~info.ok THEN [disk |-> d, err |-> "stat"]
       ELSE IF info.isDir THEN [disk |-> d, err |-> "is_a_directory"]
       ELSE [disk |-> d, err |-> "nil"]
  ELSE LET dir == OSCreateDir(d, Parent(p), ExecMode) IN
       IF dir.err # "nil" THEN [disk |-> dir.disk, err |-> "parent"]
       ELSE osWriteFile(dir.disk, p, content, perm)

(* -------------------- DryRunFileSystem (fs.go) ------------------------- *)

DryRunExists(d, p) == OSExists(d, p)

DryRunStat(d, p) == OSStat(d, p)

DryRunCreateDir(d, p, perm) ==
  IF DryRunExists(d, p)
  THEN LET info == OSStat(d, p) IN
       IF ~info.ok THEN [disk |-> d, err |-> "stat"]
       ELSE IF ~info.isDir THEN [disk |-> d, err |-> "not_a_directory"]
       ELSE [disk |-> d, err |-> "nil"]
  ELSE [disk |-> d, err |-> "nil"]

\* DryRunCreateFile handing the call on to the wrapped filesystem
DryRunCreateFile_Delegates(d, p, content, perm) == OSCreateFile(d, p, content, perm)

DryRunCreateFile(d, p, content, perm) ==
  IF DryRunExists(d, p)
  THEN LET info == OSStat(d, p) IN
       IF ~info.ok THEN [disk |-> d, err |-> "stat"]
       ELSE IF info.isDir THEN [disk |-> d, err |-> "is_a_directory"]
       ELSE [disk |-> d, err |-> "nil"]
  ELSE [disk |-> d, err |-> "nil"]

(* ------------- the FileSystem the engine holds (NewEngine) ------------- *)

FsExists(dry, d, p) == IF dry THEN DryRunExists(d, p) ELSE OSExists(d, p)

FsStat(dry, d, p) == IF dry THEN DryRunStat(d, p) ELSE OSStat(d, p)

FsCreateDir(dry, d, p, perm) ==
  IF dry THEN DryRunCreateDir(d, p, perm) ELSE OSCreateDir(d, p, perm)

FsCreateFile(dry, d, p, content, perm) ==
  IF dry THEN DryRunCreateFile(d, p, content, perm)
  ELSE OSCreateFile(d, p, content, perm)

(* -------------------- TemplateManager (template.go) -------------------- *)

\* embed.FS ReadDir: the entries of a directory, sorted by name
RECURSIVE SortByName(_)
SortByName(S) ==
  IF S = {} THEN << >>
  ELSE LET m == CHOOSE x \in S :
                  \A y \in S : NameIndex(x[Len(x)]) <= NameIndex(y[Len(y)])
       IN <<m>> \o SortByName(S \ {m})

EmbedReadDir(a, p) ==
  IF a[p] # "dir" THEN [ok |-> FALSE, entries |-> << >>]
  ELSE [ok |-> TRUE,
        entries |-> SortByName({c \in EmbedPaths : IsChild(c, p) /\ a[c] # "none"})]

\* fs.WalkDir: the sequence of callback invocations when no callback
\* returns an error; each element is <<path, err>>, directories first
RECURSIVE WalkDirFrom(_, _)
RECURSIVE WalkDirAll(_, _)
\* a walk that reports a directory after what it holds
WalkDirFrom_ChildrenFirst(a, p) ==
  IF a[p] # "dir" THEN <<[path |-> p, err |-> FALSE]>>
  ELSE WalkDirAll(a, EmbedReadDir(a, p).entries) \o <<[path |-> p, err |-> FALSE]>>

WalkDirFrom(a, p) ==
  IF a[p] # "dir" THEN <<[path |-> p, err |-> FALSE]>>
  ELSE <<[path |-> p, err |-> FALSE]>> \o WalkDirAll(a, EmbedReadDir(a, p).entries)

WalkDirAll(a, ps) ==
  IF ps = << >> THEN << >>
  ELSE WalkDirFrom(a, Head(ps)) \o WalkDirAll(a, Tail(ps))

WalkDir(a, root) ==
  IF a[root] = "none" THEN <<[path |-> root, err |-> TRUE]>>
  ELSE WalkDirFrom(a, root)

\* strings.TrimPrefix(path, prefix + "/")
TrimPrefix(p) == IF Len(p) > 1 /\ p[1] = Prefix THEN Tail(p) ELSE p

\* path.Clean and filepath.Clean on the elements of a path: empty and "."
\* elements go, ".." takes the element before it away; at the root it goes
\* too, at the start of a relative path it stays
RECURSIVE Clean(_, _, _)
Clean(rooted, out, rest) ==
  IF rest = << >> THEN out
  ELSE LET s == Head(rest) IN
       IF s \in {"", "."} THEN Clean(rooted, out, Tail(rest))
       ELSE IF s = ".."
         THEN IF out # << >> /\ out[Len(out)] # ".."
              THEN Clean(rooted, SubSeq(out, 1, Len(out) - 1), Tail(rest))
              ELSE IF rooted THEN Clean(rooted, out, Tail(rest))
              ELSE Clean(rooted, Append(out, ".."), Tail(rest))
       ELSE Clean(rooted, Append(out, s), Tail(rest))

\* path.Join(prefix, relPath)
FullPath(rel) == Clean(FALSE, << >>, <<Prefix>> \o rel)

\* ReadFile that hands back no bytes
ReadFile_NoBytes(a, rel) ==
  IF FullPath(rel) \in EmbedPaths /\ a[FullPath(rel)] = "file"
  THEN [ok |-> TRUE, data |-> ""]
  ELSE [ok |-> FALSE, data |-> ""]

ReadFile(a, rel) ==
  IF FullPath(rel) \in EmbedPaths /\ a[FullPath(rel)] = "file"
  THEN [ok |-> TRUE, data |-> Body(FullPath(rel))]
  ELSE [ok |-> FALSE, data |-> ""]

\* GetFileInfo: Open of the joined path; "." is the root of every embed.FS
GetFileInfo(a, rel) ==
  LET fp == FullPath(rel) IN
  IF fp = << >> THEN [ok |-> TRUE, isDir |-> TRUE]
  ELSE IF fp \in EmbedPaths /\ a[fp] # "none"
    THEN [ok |-> TRUE, isDir |-> a[fp] = "dir"]
    ELSE [ok |-> FALSE, isDir |-> FALSE]

\* HasTemplates that takes a failed ReadDir for content
HasTemplates_ErrIsContent(a) ==
  LET rd == EmbedReadDir(a, <<Prefix>>) IN
  IF ~rd.ok THEN TRUE ELSE Len(rd.entries) > 0

HasTemplates(a) ==
  LET rd == EmbedReadDir(a, <<Prefix>>) IN
  IF ~rd.ok THEN FALSE ELSE Len(rd.entries) > 0

\* the relative paths of the files, in walk order; the root is skipped
RECURSIVE ListFiles(_, _)
ListFiles(a, w) ==
  IF w = << >> THEN << >>
  ELSE LET e == Head(w) IN
       IF e.path = <<Prefix>> \/ a[e.path] = "dir" THEN ListFiles(a, Tail(w))
       ELSE <<TrimPrefix(e.path)>> \o ListFiles(a, Tail(w))

ListTemplates(a) == ListFiles(a, WalkDir(a, <<Prefix>>))

\* a relative path as the string the walk hands out: the names joined by "/"
RECURSIVE PathString(_)
PathString(rel) ==
  IF rel = << >> THEN ""
  ELSE IF Len(rel) = 1 THEN rel[1]
  ELSE rel[1] \o "/" \o PathString(Tail(rel))

\* strings.HasSuffix
HasSuffix(s, suffix) ==
  /\ Len(s) >= Len(suffix)
  /\ SubSeq(s, Len(s) - Len(suffix) + 1, Len(s)) = suffix

\* every name with "sh" in its last two characters taken for a script
GetDefaultFileMode_NoDot(relPath) ==
  IF HasSuffix(relPath, "sh") THEN ExecMode ELSE DataMode

GetDefaultFileMode(relPath) ==
  IF HasSuffix(relPath, ".sh") \/ HasSuffix(relPath, ".bash")
  THEN ExecMode
  ELSE DataMode

GetDefaultDirMode == ExecMode

(* ----------------------------- Engine ---------------------------------- *)

NoStats == [FilesCreated |-> 0, FilesSkipped |-> 0, DirsCreated |-> 0,
            DirsSkipped |-> 0, Errors |-> << >>]

Err(k, p) == [kind |-> k, path |-> p]

\* the outcome of one entry: the disk, the statistics, the logger.Error
\* calls so far, the error the callback returns to fs.WalkDir, and the
\* calls made on the FileSystem and the templates
Outcome(d, st, log, e) ==
  [disk |-> d, stats |-> st, errlog |-> log, err |-> e, calls |-> << >>]

PortCall(fn, p) == [fn |-> fn, path |-> p]

\* processDirectory counting an existing directory as created
processDirectory_SkipCountsCreated(dry, d, st, log, targetPath) ==
  IF FsExists(dry, d, targetPath)
  THEN LET info == FsStat(dry, d, targetPath) IN
       IF ~info.ok THEN Outcome(d, st, log, "stat")
       ELSE IF ~info.isDir
         THEN Outcome(d, [st EXCEPT !.Errors = Append(@, Err("conflict", targetPath))],
                      log, "conflict")
         ELSE Outcome(d, [st EXCEPT !.DirsCreated = @ + 1], log, "nil")
  ELSE LET r == FsCreateDir(dry, d, targetPath, GetDefaultDirMode) IN
       IF r.err # "nil"
       THEN Outcome(r.disk, [st EXCEPT !.Errors = Append(@, Err("create", targetPath))],
                    Append(log, targetPath), "create")
       ELSE Outcome(r.disk, [st EXCEPT !.DirsCreated = @ + 1], log, "nil")

\* processDirectory skipping an existing directory without counting it
processDirectory_SkipUncounted(dry, d, st, log, targetPath) ==
  IF FsExists(dry, d, targetPath)
  THEN LET info == FsStat(dry, d, targetPath) IN
       IF ~info.ok THEN Outcome(d, st, log, "stat")
       ELSE IF ~info.isDir
         THEN Outcome(d, [st EXCEPT !.Errors = Append(@, Err("conflict", targetPath))],
                      log, "conflict")
         ELSE Outcome(d, st, log, "nil")
  ELSE LET r == FsCreateDir(dry, d, targetPath, GetDefaultDirMode) IN
       IF r.err # "nil"
       THEN Outcome(r.disk, [st EXCEPT !.Errors = Append(@, Err("create", targetPath))],
                    Append(log, targetPath), "create")
       ELSE Outcome(r.disk, [st EXCEPT !.DirsCreated = @ + 1], log, "nil")

processDirectory(dry, d, st, log, targetPath) ==
  IF FsExists(dry, d, targetPath)
  THEN LET info == FsStat(dry, d, targetPath) IN
       IF ~info.ok THEN Outcome(d, st, log, "stat")
       ELSE IF ~info.isDir
         THEN Outcome(d, [st EXCEPT !.Errors = Append(@, Err("conflict", targetPath))],
                      log, "conflict")
         ELSE Outcome(d, [st EXCEPT !.DirsSkipped = @ + 1], log, "nil")
  ELSE LET r == FsCreateDir(dry, d, targetPath, GetDefaultDirMode) IN
       IF r.err # "nil"
       THEN Outcome(r.disk, [st EXCEPT !.Errors = Append(@, Err("create", targetPath))],
                    Append(log, targetPath), "create")
       ELSE Outcome(r.disk, [st EXCEPT !.DirsCreated = @ + 1], log, "nil")

\* processFile without its own existence check, relying on CreateFile
processFile_NoExistsCheck(dry, a, d, st, log, sourcePath, targetPath) ==
  LET rd == ReadFile(a, sourcePath) IN
  IF ~rd.ok
  THEN Outcome(d, [st EXCEPT !.Errors = Append(@, Err("read", targetPath))],
               Append(log, targetPath), "read")
  ELSE LET r == FsCreateFile(dry, d, targetPath, rd.data,
                             GetDefaultFileMode(PathString(sourcePath))) IN
       IF r.err # "nil"
       THEN Outcome(r.disk,
                    [st EXCEPT !.Errors = Append(@, Err("create", targetPath))],
                    Append(log, targetPath), "create")
       ELSE Outcome(r.disk, [st EXCEPT !.FilesCreated = @ + 1], log, "nil")

\* processFile counting a directory in the way as a skipped file
processFile_ConflictCountsSkipped(dry, a, d, st, log, sourcePath, targetPath) ==
  IF FsExists(dry, d, targetPath)
  THEN LET info == FsStat(dry, d, targetPath) IN
       IF ~info.ok THEN Outcome(d, st, log, "stat")
       ELSE IF info.isDir
         THEN Outcome(d, [st EXCEPT !.Errors = Append(@, Err("conflict", targetPath)),
                                    !.FilesSkipped = @ + 1],
                      log, "conflict")
         ELSE Outcome(d, [st EXCEPT !.FilesSkipped = @ + 1], log, "nil")
  ELSE LET rd == ReadFile(a, sourcePath) IN
       IF ~rd.ok
       THEN Outcome(d, [st EXCEPT !.Errors = Append(@, Err("read", targetPath))],
                    Append(log, targetPath), "read")
       ELSE LET r == FsCreateFile(dry, d, targetPath, rd.data,
                                  GetDefaultFileMode(PathString(sourcePath))) IN
            IF r.err # "nil"
            THEN Outcome(r.disk,
                         [st EXCEPT !.Errors = Append(@, Err("create", targetPath))],
                         Append(log, targetPath), "create")
            ELSE Outcome(r.disk, [st EXCEPT !.FilesCreated = @ + 1], log, "nil")

processFile(dry, a, d, st, log, sourcePath, targetPath) ==
  IF FsExists(dry, d, targetPath)
  THEN LET info == FsStat(dry, d, targetPath) IN
       IF ~info.ok THEN Outcome(d, st, log, "stat")
       ELSE IF info.isDir
         THEN Outcome(d, [st EXCEPT !.Errors = Append(@, Err("conflict", targetPath))],
                      log, "conflict")
         ELSE Outcome(d, [st EXCEPT !.FilesSkipped = @ + 1], log, "nil")
  ELSE LET rd == ReadFile(a, sourcePath) IN
       IF ~rd.ok
       THEN Outcome(d, [st EXCEPT !.Errors = Append(@, Err("read", targetPath))],
                    Append(log, targetPath), "read")
       ELSE LET r == FsCreateFile(dry, d, targetPath, rd.data,
                                  GetDefaultFileMode(PathString(sourcePath))) IN
            IF r.err # "nil"
            THEN Outcome(r.disk,
                         [st EXCEPT !.Errors = Append(@, Err("create", targetPath))],
                         Append(log, targetPath), "create")
            ELSE Outcome(r.disk, [st EXCEPT !.FilesCreated = @ + 1], log, "nil")

\* the calls processDirectory makes, in their order: Exists, then Stat on
\* what exists or CreateDir on what does not
directoryCalls(dry, d, targetPath) ==
  IF FsExists(dry, d, targetPath)
  THEN <<PortCall("Exists", targetPath), PortCall("Stat", targetPath)>>
  ELSE <<PortCall("Exists", targetPath), PortCall("CreateDir", targetPath)>>

\* fileCalls of a processFile that reads the template before it looks at
\* the destination
fileCalls_ReadsFirst(dry, a, d, sourcePath, targetPath) ==
  IF FsExists(dry, d, targetPath)
  THEN <<PortCall("ReadFile", sourcePath), PortCall("Exists", targetPath),
         PortCall("Stat", targetPath)>>
  ELSE IF ~ReadFile(a, sourcePath).ok
    THEN <<PortCall("ReadFile", sourcePath), PortCall("Exists", targetPath)>>
    ELSE <<PortCall("ReadFile", sourcePath), PortCall("Exists", targetPath),
           PortCall("CreateFile", targetPath)>>

\* the calls processFile makes, in their order: Exists, then Stat on what
\* exists, or ReadFile of the template and, when it was read, CreateFile
fileCalls(dry, a, d, sourcePath, targetPath) ==
  IF FsExists(dry, d, targetPath)
  THEN <<PortCall("Exists", targetPath), PortCall("Stat", targetPath)>>
  ELSE IF ~ReadFile(a, sourcePath).ok
    THEN <<PortCall("Exists", targetPath), PortCall("ReadFile", sourcePath)>>
    ELSE <<PortCall("Exists", targetPath), PortCall("ReadFile", sourcePath),
           PortCall("CreateFile", targetPath)>>

\* filepath.Join(TargetDir, ".claude", filepath.FromSlash(path)), absolute
JoinTarget(rel) == Clean(TRUE, << >>, AbsTargetDir \o <<Prefix>> \o rel)

\* the same path, seen from the target directory
TargetPath(rel) ==
  LET j == JoinTarget(rel)
  IN TargetDir \o SubSeq(j, Len(AbsTargetDir) + 1, Len(j))

\* the closure Run hands to TemplateManager.Walk
WalkFn(dry, a, d, st, log, rel, isDir, err) ==
  IF err
  THEN Outcome(d, [st EXCEPT !.Errors = Append(@, Err("walk", rel))],
               Append(log, rel), "nil")
  ELSE IF isDir
    THEN [processDirectory(dry, d, st, log, TargetPath(rel))
            EXCEPT !.calls = directoryCalls(dry, d, TargetPath(rel))]
    ELSE [processFile(dry, a, d, st, log, rel, TargetPath(rel))
            EXCEPT !.calls = fileCalls(dry, a, d, rel, TargetPath(rel))]

(* ------------------------------ states --------------------------------- *)

Kinds == {"none", "file", "dir"}

\* an embedded tree (//go:embed .claude/*): files and the directories that
\* lead to them, so every directory holds an entry; the zero embed.FS has
\* no root
WellFormedAssets(a) ==
  /\ \A p \in EmbedPaths : (a[p] # "none" /\ Len(p) > 1) => a[Parent(p)] = "dir"
  /\ \A p \in EmbedPaths :
       a[p] = "dir" => \E c \in EmbedPaths : IsChild(c, p) /\ a[c] # "none"

AssetTrees ==
  {a \in [EmbedPaths -> Kinds] : a[<<Prefix>>] # "file" /\ WellFormedAssets(a)}

WellFormedDisk(d) ==
  \A p \in DiskPaths : (d[p].kind # "none" /\ Len(p) > 0) => d[Parent(p)].kind = "dir"

InitialNodes == {NoNode, DirNode(ExecMode), FileNode("user", DataMode)}

InitialDisks == {d \in [DiskPaths -> InitialNodes] : WellFormedDisk(d)}

NoSummary ==
  [shown |-> FALSE, created |-> 0, skipped |-> 0, errors |-> 0,
   colored |-> FALSE]

NoPrev(d) == [ran |-> FALSE, dry |-> FALSE, stats |-> NoStats, result |-> "none",
              aborted |-> "none", exit |-> -1, disk |-> d]

\* no function has been called on its own
NoCall == [op |-> "none", path |-> << >>, perm |-> 0, data |-> "",
           err |-> "nil", dest |-> << >>, fsCalls |-> << >>]

Init ==
  /\ assets \in AssetTrees
  /\ disk \in InitialDisks
  /\ cfg = [DryRun |-> FALSE, Verbose |-> FALSE, NoColor |-> FALSE]
  /\ pc = "NotStarted"
  /\ stats = NoStats
  /\ todo = << >>
  /\ visits = [r \in RelPaths |-> 0]
  /\ listed = << >>
  /\ errlog = << >>
  /\ summary = NoSummary
  /\ aborted = "none"
  /\ result = "none"
  /\ exit = -1
  /\ invocations = 0
  /\ disk0 = disk
  /\ diskRun = disk
  /\ prev = NoPrev(disk)
  /\ call = NoCall
  /\ fscalls = << >>

(* ------------------------------ actions -------------------------------- *)

\* the user starts the tool; parseFlags fills the Config
ParseFlags(dry, verbose, noColor) ==
  /\ pc \in {"NotStarted", "Exited"}
  /\ invocations < MaxInvocations
  /\ invocations' = invocations + 1
  /\ cfg' = [DryRun |-> dry, Verbose |-> verbose, NoColor |-> noColor]
  /\ prev' = IF pc = "Exited"
             THEN [ran |-> result # "none", dry |-> cfg.DryRun, stats |-> stats,
                   result |-> result, aborted |-> aborted, exit |-> exit,
                   disk |-> disk]
             ELSE prev
  /\ disk0' = disk
  /\ diskRun' = disk
  /\ stats' = NoStats
  /\ todo' = << >>
  /\ visits' = [r \in RelPaths |-> 0]
  /\ listed' = << >>
  /\ errlog' = << >>
  /\ summary' = NoSummary
  /\ aborted' = "none"
  /\ result' = "none"
  /\ exit' = -1
  /\ pc' = "Parsed"
  /\ fscalls' = << >>
  /\ UNCHANGED <<assets, disk, call>>

\* validateConfig: [disk, err]; the write test creates and removes a file
validateConfig(d, dry) ==
  LET info == osStat(d, TargetDir) IN
  IF ~info.ok THEN [disk |-> d, err |-> "not_exist"]
  ELSE IF ~info.isDir THEN [disk |-> d, err |-> "not_a_directory"]
  ELSE IF ~dry
    THEN LET f == osWriteFile(d, TestFile, "", CreateMode) IN
         IF f.err # "nil" THEN [disk |-> f.disk, err |-> "no_write_permission"]
         ELSE [disk |-> osRemove(f.disk, TestFile), err |-> "nil"]
    ELSE [disk |-> d, err |-> "nil"]

\* main: validateConfig, exit status 1 when it fails
ValidateConfig ==
  /\ pc = "Parsed"
  /\ LET v == validateConfig(disk, cfg.DryRun) IN
     /\ disk' = v.disk
     /\ IF v.err # "nil"
        THEN pc' = "Exited" /\ exit' = 1
        ELSE pc' = "Validated" /\ exit' = exit
  /\ UNCHANGED <<assets, cfg, stats, todo, visits, listed, errlog, summary,
                 aborted, result, invocations, disk0, diskRun, prev,
                 call, fscalls>>

NewEngine ==
  /\ pc = "Validated"
  /\ stats' = NoStats
  /\ pc' = "Ready"
  /\ UNCHANGED <<assets, disk, cfg, todo, visits, listed, errlog, summary,
                 aborted, result, exit, invocations, disk0, diskRun, prev,
                 call, fscalls>>

\* Run that in verbose mode walks the files it has just listed
RunBegin_WalksListing ==
  /\ pc = "Ready"
  /\ diskRun' = disk
  /\ IF ~HasTemplates(assets)
     THEN /\ result' = "err"
          /\ aborted' = "no_templates"
          /\ pc' = "Returned"
          /\ UNCHANGED <<listed, todo>>
     ELSE /\ listed' = IF cfg.Verbose THEN ListTemplates(assets) ELSE << >>
          /\ todo' = IF cfg.Verbose
                     THEN SelectSeq(WalkDir(assets, <<Prefix>>),
                                    LAMBDA e : assets[e.path] = "file")
                     ELSE WalkDir(assets, <<Prefix>>)
          /\ pc' = "Walking"
          /\ UNCHANGED <<result, aborted>>
  /\ UNCHANGED <<assets, disk, cfg, stats, visits, errlog, summary, exit,
                 invocations, disk0, prev, call, fscalls>>

\* Run up to the call of Walk: the template check and the verbose listing
RunBegin ==
  /\ pc = "Ready"
  /\ diskRun' = disk
  /\ IF ~HasTemplates(assets)
     THEN /\ result' = "err"
          /\ aborted' = "no_templates"
          /\ pc' = "Returned"
          /\ UNCHANGED <<listed, todo>>
     ELSE /\ listed' = IF cfg.Verbose THEN ListTemplates(assets) ELSE << >>
          /\ todo' = WalkDir(assets, <<Prefix>>)
          /\ pc' = "Walking"
          /\ UNCHANGED <<result, aborted>>
  /\ UNCHANGED <<assets, disk, cfg, stats, visits, errlog, summary, exit,
                 invocations, disk0, prev, call, fscalls>>

\* one callback of fs.WalkDir: the closure of TemplateManager.Walk, which
\* skips the root and strips the prefix, then the closure of Run.  An error
\* returned by the callback ends the walk.
WalkStep ==
  /\ pc = "Walking"
  /\ todo # << >>
  /\ LET e == Head(todo)
         rel == TrimPrefix(e.path)
         isRoot == ~e.err /\ e.path = <<Prefix>>
         o == IF isRoot THEN Outcome(disk, stats, errlog, "nil")
              ELSE WalkFn(cfg.DryRun, assets, disk, stats, errlog, rel,
                          assets[e.path] = "dir", e.err)
     IN /\ disk' = o.disk
        /\ stats' = o.stats
        /\ errlog' = o.errlog
        /\ fscalls' = fscalls \o o.calls
        /\ visits' = IF isRoot \/ e.err THEN visits
                     ELSE [visits EXCEPT ![rel] = @ + 1]
        /\ IF o.err # "nil"
           THEN todo' = << >> /\ aborted' = "walk"
           ELSE todo' = Tail(todo) /\ aborted' = aborted
  /\ UNCHANGED <<assets, cfg, pc, listed, summary, result, exit, invocations,
                 disk0, diskRun, prev,
                 call>>

\* the totals go through the logger, which colours them unless noColor
showSummary(st, noColor) ==
  [shown |-> TRUE,
   created |-> st.FilesCreated + st.DirsCreated,
   skipped |-> st.FilesSkipped + st.DirsSkipped,
   errors |-> Len(st.Errors),
   colored |-> ~noColor]

\* Run without the test of the error Walk returned
runResult_IgnoresWalkError(walkFailed, st) ==
  IF walkFailed THEN "nil"
  ELSE IF Len(st.Errors) > 0 THEN "err" ELSE "nil"

\* the value Run returns once Walk has returned
runResult(walkFailed, st) ==
  IF walkFailed THEN "err"
  ELSE IF Len(st.Errors) > 0 THEN "err" ELSE "nil"

\* Run that goes on only after a walk without error
RunEnd_AfterCleanWalk ==
  /\ pc = "Walking"
  /\ todo = << >>
  /\ aborted = "none"
  /\ summary' = showSummary(stats, cfg.NoColor)
  /\ result' = runResult(FALSE, stats)
  /\ pc' = "Returned"
  /\ UNCHANGED <<assets, disk, cfg, stats, todo, visits, listed, errlog,
                 aborted, exit, invocations, disk0, diskRun, prev, call,
                 fscalls>>

\* Run after Walk has returned: the summary is shown unless Walk failed
RunEnd ==
  /\ pc = "Walking"
  /\ todo = << >>
  /\ summary' = IF aborted = "walk" THEN summary
                 ELSE showSummary(stats, cfg.NoColor)
  /\ result' = runResult(aborted = "walk", stats)
  /\ pc' = "Returned"
  /\ UNCHANGED <<assets, disk, cfg, stats, todo, visits, listed, errlog,
                 aborted, exit, invocations, disk0, diskRun, prev,
                 call, fscalls>>

\* the exit status main ends with
exitStatus(res) == IF res # "nil" THEN 1 ELSE 0

\* the "Error: ..." line main prints for the error Run returned: the error
\* of a failed walk is the error of the entry that ended it, wrapped; the
\* other errors of Run name no entry
mainError(res, ab, st) ==
  IF res = "err" /\ ab = "walk" /\ st.Errors # << >>
  THEN <<st.Errors[Len(st.Errors)].path>>
  ELSE << >>

\* main after Run has returned
MainExit ==
  /\ pc = "Returned"
  /\ errlog' = errlog \o mainError(result, aborted, stats)
  /\ exit' = exitStatus(result)
  /\ pc' = "Exited"
  /\ UNCHANGED <<assets, disk, cfg, stats, todo, visits, listed,
                 summary, aborted, result, invocations, disk0, diskRun, prev,
                 call, fscalls>>

Next ==
  \/ \E dry \in BOOLEAN, verbose \in BOOLEAN, noColor \in BOOLEAN :
        ParseFlags(dry, verbose, noColor)
  \/ ValidateConfig
  \/ NewEngine
  \/ RunBegin
  \/ WalkStep
  \/ RunEnd
  \/ MainExit

Spec == Init /\ [][Next]_vars

\* what RunBegin does to pc: Run is called and goes on to the walk or returns
RunCalled == pc = "Ready" /\ pc' \in {"Walking", "Returned"}

\* what WalkStep does to todo: fs.WalkDir makes its next callback and goes
\* on to the one after it, or stops
WalkAdvances ==
  pc = "Walking" /\ todo # << >> /\ todo' \in {Tail(todo), << >>}

\* Run is sequential code on one goroutine: once called it takes its next
\* step.  RunBegin and WalkStep are enabled exactly when pc = "Ready" and
\* when pc = "Walking" with callbacks to make, and their steps are the
\* steps that change pc and todo as RunCalled and WalkAdvances say; the
\* fairness of the two is stated on these.
LiveSpec ==
  /\ Init
  /\ [][Next]_vars
  /\ WF_pc(RunCalled)
  /\ WF_todo(WalkAdvances)
  /\ WF_vars(RunEnd)

(* ------------------ an Engine whose Run is called again ---------------- *)

\* Run is called once more on the Engine that has returned from Run: the
\* Engine keeps its fields, Run's locals start afresh
RunAgain ==
  /\ pc = "Returned"
  /\ call.op = "none"
  /\ call' = [NoCall EXCEPT !.op = "Run"]
  /\ prev' = [ran |-> TRUE, dry |-> cfg.DryRun, stats |-> stats,
              result |-> result, aborted |-> aborted, exit |-> exit,
              disk |-> disk]
  /\ todo' = << >>
  /\ visits' = [r \in RelPaths |-> 0]
  /\ listed' = << >>
  /\ summary' = NoSummary
  /\ aborted' = "none"
  /\ result' = "none"
  /\ pc' = "Ready"
  /\ fscalls' = << >>
  /\ UNCHANGED <<assets, disk, cfg, stats, errlog, exit, invocations, disk0,
                 diskRun>>

EngineNext == Next \/ RunAgain

EngineSpec == Init /\ [][EngineNext]_vars

(* ------------- single calls of the path-taking functions --------------- *)

\* elements a caller may put into a path: names, "..", and the empty element
\* that a leading "/" produces
Segments == {"..", "", "commands", "settings.json"}
ArgPaths == UNION {[1..n -> Segments] : n \in 1..MaxArgLen}

\* a target directory that holds nothing
EmptyTarget == [p \in DiskPaths |-> IF p = TargetDir THEN DirNode(ExecMode) ELSE NoNode]

PathInit == Init /\ disk = EmptyTarget

\* TemplateManager.ReadFile(relPath)
CallReadFile(rel) ==
  /\ pc = "NotStarted"
  /\ LET r == ReadFile(assets, rel)
     IN call' = [NoCall EXCEPT !.op = "ReadFile", !.path = rel,
                               !.err = IF r.ok THEN "nil" ELSE "read",
                               !.data = r.data]
  /\ pc' = "Called"
  /\ UNCHANGED <<assets, disk, cfg, stats, todo, visits, listed, errlog,
                 summary, aborted, result, exit, invocations, disk0, diskRun,
                 prev, fscalls>>

\* TemplateManager.GetFileInfo(relPath)
CallGetFileInfo(rel) ==
  /\ pc = "NotStarted"
  /\ LET r == GetFileInfo(assets, rel)
     IN call' = [NoCall EXCEPT !.op = "GetFileInfo", !.path = rel,
                               !.err = IF r.ok THEN "nil" ELSE "open",
                               !.data = IF r.ok THEN "info" ELSE ""]
  /\ pc' = "Called"
  /\ UNCHANGED <<assets, disk, cfg, stats, todo, visits, listed, errlog,
                 summary, aborted, result, exit, invocations, disk0, diskRun,
                 prev, fscalls>>

\* the closure of Run called with a path and no error, up to the first call
\* it makes on the file system: it joins the path to the target directory
\* and hands the result to processDirectory or processFile, which both
\* begin with fs.Exists(targetPath)
CallWalkFn(rel) ==
  /\ pc = "NotStarted"
  /\ call' = [NoCall EXCEPT !.op = "WalkFn", !.path = rel,
                            !.dest = JoinTarget(rel),
                            !.fsCalls = <<[fn |-> "Exists",
                                           path |-> JoinTarget(rel)]>>]
  /\ pc' = "Called"
  /\ UNCHANGED <<assets, disk, cfg, stats, todo, visits, listed, errlog,
                 summary, aborted, result, exit, invocations, disk0, diskRun,
                 prev, fscalls>>

PathNext ==
  \/ \E rel \in ArgPaths : CallReadFile(rel)
  \/ \E rel \in ArgPaths : CallGetFileInfo(rel)
  \/ \E rel \in ArgPaths : CallWalkFn(rel)

PathSpec == PathInit /\ [][PathNext]_vars

(* ---------------- single calls of OSFileSystem methods ----------------- *)

\* OSFileSystem.CreateDir(path, perm)
CallCreateDir(p, perm) ==
  /\ pc = "NotStarted"
  /\ LET r == OSCreateDir(disk, p, perm)
     IN /\ disk' = r.disk
        /\ call' = [NoCall EXCEPT !.op = "CreateDir", !.path = p,
                                  !.perm = perm, !.err = r.err]
  /\ pc' = "Called"
  /\ UNCHANGED <<assets, cfg, stats, todo, visits, listed, errlog, summary,
                 aborted, result, exit, invocations, disk0, diskRun, prev,
                 fscalls>>

\* OSFileSystem.CreateFile(path, content, perm)
CallCreateFile(p, content, perm) ==
  /\ pc = "NotStarted"
  /\ LET r == OSCreateFile(disk, p, content, perm)
     IN /\ disk' = r.disk
        /\ call' = [NoCall EXCEPT !.op = "CreateFile", !.path = p,
                                  !.perm = perm, !.data = content,
                                  !.err = r.err]
  /\ pc' = "Called"
  /\ UNCHANGED <<assets, cfg, stats, todo, visits, listed, errlog, summary,
                 aborted, result, exit, invocations, disk0, diskRun, prev,
                 fscalls>>

\* DryRunFileSystem.CreateDir(path, perm)
CallDryRunCreateDir(p, perm) ==
  /\ pc = "NotStarted"
  /\ LET r == DryRunCreateDir(disk, p, perm)
     IN /\ disk' = r.disk
        /\ call' = [NoCall EXCEPT !.op = "DryRunCreateDir", !.path = p,
                                  !.perm = perm, !.err = r.err]
  /\ pc' = "Called"
  /\ UNCHANGED <<assets, cfg, stats, todo, visits, listed, errlog, summary,
                 aborted, result, exit, invocations, disk0, diskRun, prev,
                 fscalls>>

\* DryRunFileSystem.CreateFile(path, content, perm)
CallDryRunCreateFile(p, content, perm) ==
  /\ pc = "NotStarted"
  /\ LET r == DryRunCreateFile(disk, p, content, perm)
     IN /\ disk' = r.disk
        /\ call' = [NoCall EXCEPT !.op = "DryRunCreateFile", !.path = p,
                                  !.perm = perm, !.data = content,
                                  !.err = r.err]
  /\ pc' = "Called"
  /\ UNCHANGED <<assets, cfg, stats, todo, visits, listed, errlog, summary,
                 aborted, result, exit, invocations, disk0, diskRun, prev,
                 fscalls>>

FsNext ==
  \/ \E p \in DiskPaths, perm \in {ExecMode, DataMode} : CallCreateDir(p, perm)
  \/ \E p \in DiskPaths \ {TargetDir}, content \in {"", "new"},
        perm \in {ExecMode, DataMode} : CallCreateFile(p, content, perm)
  \/ \E p \in DiskPaths, perm \in {ExecMode, DataMode} :
        CallDryRunCreateDir(p, perm)
  \/ \E p \in DiskPaths \ {TargetDir}, content \in {"", "new"},
        perm \in {ExecMode, DataMode} : CallDryRunCreateFile(p, content, perm)

FsSpec == Init /\ [][FsNext]_vars

(* ---------------- the permission defaults called alone ------------------ *)

PathChars == {".", "s", "h", "b", "a"}

\* the strings of exactly n characters
RECURSIVE StringsOfLen(_)
StringsOfLen(n) ==
  IF n = 0 THEN {""}
  ELSE {s \o c : s \in StringsOfLen(n - 1), c \in PathChars}

RelPathStrings == UNION {StringsOfLen(n) : n \in 1..MaxPathChars}

\* TemplateManager.GetDefaultFileMode(relPath)
CallGetDefaultFileMode(relPath) ==
  /\ pc = "NotStarted"
  /\ call' = [NoCall EXCEPT !.op = "GetDefaultFileMode", !.data = relPath,
                            !.perm = GetDefaultFileMode(relPath)]
  /\ pc' = "Called"
  /\ UNCHANGED <<assets, disk, cfg, stats, todo, visits, listed, errlog,
                 summary, aborted, result, exit, invocations, disk0, diskRun,
                 prev, fscalls>>

\* TemplateManager.GetDefaultDirMode()
CallGetDefaultDirMode ==
  /\ pc = "NotStarted"
  /\ call' = [NoCall EXCEPT !.op = "GetDefaultDirMode",
                            !.perm = GetDefaultDirMode]
  /\ pc' = "Called"
  /\ UNCHANGED <<assets, disk, cfg, stats, todo, visits, listed, errlog,
                 summary, aborted, result, exit, invocations, disk0, diskRun,
                 prev, fscalls>>

ModeNext ==
  \/ \E relPath \in RelPathStrings : CallGetDefaultFileMode(relPath)
  \/ CallGetDefaultDirMode

\* the defaults depend on nothing but their argument: one tree, one disk
ModeInit == PathInit /\ \A p \in EmbedPaths : assets[p] # "none"

ModeSpec == ModeInit /\ [][ModeNext]_vars

(* ------- processFile of a real run, one system call at a time, --------- *)
(* ------- beside another process that works on the same path ------------ *)

\* the engine is between two system calls of processFile
InProcessFile ==
  pc \in {"pf_Exists", "pf_Stat", "pf_Read", "cf_Exists", "cf_Stat",
          "cf_Parent", "cf_Write"}

\* processFile returns err with the statistics st and the error lines log
pfReturn(st, log, err) ==
  /\ stats' = st
  /\ errlog' = log
  /\ call' = [call EXCEPT !.err = err]
  /\ pc' = "Called"

\* the failure of CreateFile as processFile records it
pfCreateFailed ==
  pfReturn([stats EXCEPT !.Errors = Append(@, Err("create", call.dest))],
           Append(errlog, call.dest), "create")

\* the walk hands a file entry to processFile
pfEnter(rel) ==
  /\ pc = "NotStarted"
  /\ assets[FullPath(rel)] = "file"
  /\ call' = [NoCall EXCEPT !.op = "processFile", !.path = rel,
                            !.dest = TargetPath(rel)]
  /\ pc' = "pf_Exists"
  /\ UNCHANGED <<assets, disk, cfg, stats, todo, visits, listed, errlog,
                 summary, aborted, result, exit, invocations, disk0, diskRun,
                 prev, fscalls>>

\* e.fs.Exists(targetPath)
pfExists ==
  /\ pc = "pf_Exists"
  /\ pc' = IF OSExists(disk, call.dest) THEN "pf_Stat" ELSE "pf_Read"
  /\ UNCHANGED <<assets, disk, cfg, stats, todo, visits, listed, errlog,
                 summary, aborted, result, exit, invocations, disk0, diskRun,
                 prev, call, fscalls>>

\* e.fs.Stat(targetPath) and the three ways on from it
pfStat ==
  /\ pc = "pf_Stat"
  /\ LET info == OSStat(disk, call.dest) IN
     IF ~info.ok THEN pfReturn(stats, errlog, "stat")
     ELSE IF info.isDir
       THEN pfReturn([stats EXCEPT
                        !.Errors = Append(@, Err("conflict", call.dest))],
                     errlog, "conflict")
       ELSE pfReturn([stats EXCEPT !.FilesSkipped = @ + 1], errlog, "nil")
  /\ UNCHANGED <<assets, disk, cfg, todo, visits, listed, summary, aborted,
                 result, exit, invocations, disk0, diskRun, prev, fscalls>>

\* e.tmpl.ReadFile(sourcePath) and GetDefaultFileMode
pfRead ==
  /\ pc = "pf_Read"
  /\ LET rd == ReadFile(assets, call.path) IN
     IF ~rd.ok
     THEN pfReturn([stats EXCEPT !.Errors = Append(@, Err("read", call.dest))],
                   Append(errlog, call.dest), "read")
     ELSE /\ call' = [call EXCEPT
                        !.data = rd.data,
                        !.perm = GetDefaultFileMode(PathString(call.path))]
          /\ pc' = "cf_Exists"
          /\ UNCHANGED <<stats, errlog>>
  /\ UNCHANGED <<assets, disk, cfg, todo, visits, listed, summary, aborted,
                 result, exit, invocations, disk0, diskRun, prev, fscalls>>

\* CreateFile: fs.Exists(path)
cfExists ==
  /\ pc = "cf_Exists"
  /\ pc' = IF OSExists(disk, call.dest) THEN "cf_Stat" ELSE "cf_Parent"
  /\ UNCHANGED <<assets, disk, cfg, stats, todo, visits, listed, errlog,
                 summary, aborted, result, exit, invocations, disk0, diskRun,
                 prev, call, fscalls>>

\* CreateFile: os.Stat(path) of what exists; a regular file there makes
\* CreateFile return nil, which processFile counts as a file created
cfStat ==
  /\ pc = "cf_Stat"
  /\ LET info == osStat(disk, call.dest) IN
     IF ~info.ok \/ info.isDir THEN pfCreateFailed
     ELSE pfReturn([stats EXCEPT !.FilesCreated = @ + 1], errlog, "nil")
  /\ UNCHANGED <<assets, disk, cfg, todo, visits, listed, summary, aborted,
                 result, exit, invocations, disk0, diskRun, prev, fscalls>>

\* CreateFile: fs.CreateDir(filepath.Dir(path), 0755)
cfParent ==
  /\ pc = "cf_Parent"
  /\ LET dir == OSCreateDir(disk, Parent(call.dest), ExecMode) IN
     /\ disk' = dir.disk
     /\ IF dir.err # "nil" THEN pfCreateFailed
        ELSE pc' = "cf_Write" /\ UNCHANGED <<stats, errlog, call>>
  /\ UNCHANGED <<assets, cfg, todo, visits, listed, summary, aborted,
                 result, exit, invocations, disk0, diskRun, prev, fscalls>>

\* CreateFile: os.WriteFile(path, content, perm)
cfWrite ==
  /\ pc = "cf_Write"
  /\ LET w == osWriteFile(disk, call.dest, call.data, call.perm) IN
     /\ disk' = w.disk
     /\ IF w.err # "nil" THEN pfCreateFailed
        ELSE pfReturn([stats EXCEPT !.FilesCreated = @ + 1], errlog, "nil")
  /\ UNCHANGED <<assets, cfg, todo, visits, listed, summary, aborted,
                 result, exit, invocations, disk0, diskRun, prev, fscalls>>

\* what another process writes
OtherContent == "other"

\* another process creates the destination, and the directories leading
\* to it, while processFile is under way
OtherCreates ==
  /\ InProcessFile
  /\ disk[call.dest].kind = "none"
  /\ LET dir == osMkdirAll(disk, Parent(call.dest), ExecMode) IN
     /\ dir.err = "nil"
     /\ disk' = osWriteFile(dir.disk, call.dest, OtherContent, DataMode).disk
  /\ UNCHANGED <<assets, cfg, pc, stats, todo, visits, listed, errlog,
                 summary, aborted, result, exit, invocations, disk0, diskRun,
                 prev, call, fscalls>>

\* another process removes the destination while processFile is under way
OtherRemoves ==
  /\ InProcessFile
  /\ osStat(disk, call.dest).ok
  /\ disk[call.dest].kind = "file"
  /\ disk' = osRemove(disk, call.dest)
  /\ UNCHANGED <<assets, cfg, pc, stats, todo, visits, listed, errlog,
                 summary, aborted, result, exit, invocations, disk0, diskRun,
                 prev, call, fscalls>>

RaceNext ==
  \/ \E rel \in RelPaths : pfEnter(rel)
  \/ pfExists
  \/ pfStat
  \/ pfRead
  \/ cfExists
  \/ cfStat
  \/ cfParent
  \/ cfWrite
  \/ OtherCreates
  \/ OtherRemoves

RaceSpec == Init /\ [][RaceNext]_vars

TypeOK ==
  /\ assets \in AssetTrees
  /\ WellFormedDisk(disk)
  /\ pc \in {"NotStarted", "Parsed", "Validated", "Ready", "Walking",
             "Returned", "Exited", "Called"} \cup
           {"pf_Exists", "pf_Stat", "pf_Read", "cf_Exists", "cf_Stat",
            "cf_Parent", "cf_Write"}
  /\ result \in {"none", "nil", "err"}
  /\ aborted \in {"none", "no_templates", "walk"}
  /\ exit \in {-1, 0, 1}

(* ------------------------ vocabulary of the claims --------------------- *)

\* Engine.Run has been entered by the current process
RunEntered == pc \in {"Walking", "Returned"} \/ (pc = "Exited" /\ result # "none")

\* Engine.Run has returned in the current process
RunReturned == pc = "Returned" \/ (pc = "Exited" /\ result # "none")

\* the asset entries: every embedded path below the root
Entries == {r \in RelPaths : assets[FullPath(r)] # "none"}
FileEntries == {r \in Entries : assets[FullPath(r)] = "file"}
DirEntries == {r \in Entries : assets[FullPath(r)] = "dir"}

HasError(k) == \E i \in 1..Len(stats.Errors) : stats.Errors[i].kind = k

\* the destination of the entry exists with the other kind
KindConflict(d, r) ==
  LET info == osStat(d, TargetPath(r))
  IN info.ok /\ (info.isDir # (assets[FullPath(r)] = "dir"))

Created(st) == st.FilesCreated + st.DirsCreated
Skipped(st) == st.FilesSkipped + st.DirsSkipped

\* what exists in d is the same in e
Preserves(d, e) == \A p \in DiskPaths : d[p].kind # "none" => e[p] = d[p]

\* C1: during and after a real run, every path that existed when Run was
\* entered still has the kind, content and mode it had then; and on every
\* disk the program reaches, OSFileSystem.CreateDir and CreateFile called
\* with any path leave every existing path as it is.
C1_ExistingPathsUntouched ==
  /\ (RunEntered /\ ~cfg.DryRun) => Preserves(diskRun, disk)
  /\ \A p \in DiskPaths \ {TargetDir} :
       /\ Preserves(disk, OSCreateDir(disk, p, ExecMode).disk)
       /\ Preserves(disk, OSCreateFile(disk, p, "new", DataMode).disk)

\* a real run has returned after creating a file next to files and
\* directories that were there before
C1_Witness ==
  /\ RunReturned /\ ~cfg.DryRun
  /\ stats.FilesCreated > 0
  /\ stats.FilesSkipped > 0
  /\ stats.DirsSkipped > 0

\* C2: a real run that follows a real run creates no file and no directory
\* and leaves the disk as the first run left it.
C2_SecondRunCreatesNothing ==
  (pc = "Exited" /\ result # "none" /\ ~cfg.DryRun /\ prev.ran /\ ~prev.dry) =>
    /\ stats.FilesCreated = 0
    /\ stats.DirsCreated = 0
    /\ disk = prev.disk

\* the second real run has ended after a first real run that created entries
C2_Witness ==
  /\ pc = "Exited" /\ result # "none" /\ ~cfg.DryRun /\ prev.ran /\ ~prev.dry
  /\ prev.stats.FilesCreated > 0
  /\ prev.stats.DirsCreated > 0
  /\ stats.FilesSkipped > 0

\* C3 as stated: the second run skips as many items as the first created.
C3_SkippedEqualsCreated ==
  (RunReturned /\ prev.ran /\ ~prev.dry) => Skipped(stats) = Created(prev.stats)

\* C3 amended: the second run skips as many items as a real first run
\* created or skipped.
C3_SkippedEqualsCreatedPlusSkipped ==
  (RunReturned /\ prev.ran /\ ~prev.dry) =>
    Skipped(stats) = Created(prev.stats) + Skipped(prev.stats)

\* a second run has returned after a first real run that both created and
\* skipped entries
C3_Witness ==
  /\ RunReturned /\ prev.ran /\ ~prev.dry
  /\ Created(prev.stats) > 0
  /\ Skipped(prev.stats) > 0

\* C4: a run that met a kind conflict has still handed every asset entry
\* to the engine and ended through the summary.
C4_ConflictDoesNotAbort ==
  (RunReturned /\ HasError("conflict")) =>
    /\ \A r \in Entries : visits[r] = 1
    /\ aborted = "none"
    /\ summary.shown

\* C5: processing an entry whose destination has the other kind appends
\* one error and leaves the four counters as they were.
C5_ConflictStep ==
  [][(/\ pc = "Walking"
      /\ todo # << >>
      /\ Head(todo).path # <<Prefix>>
      /\ KindConflict(disk, TrimPrefix(Head(todo).path)))
     => (/\ Len(stats'.Errors) = Len(stats.Errors) + 1
         /\ stats'.Errors[Len(stats'.Errors)] =
              Err("conflict", TargetPath(TrimPrefix(Head(todo).path)))
         /\ stats'.FilesCreated = stats.FilesCreated
         /\ stats'.FilesSkipped = stats.FilesSkipped
         /\ stats'.DirsCreated = stats.DirsCreated
         /\ stats'.DirsSkipped = stats.DirsSkipped)]_vars

\* a kind conflict has been recorded after other entries were counted
C5_Witness == HasError("conflict") /\ Created(stats) + Skipped(stats) > 0

\* C6: after a create or read failure the walk goes on: the error stays
\* inside the entry-processing step.
C6_FailureDoesNotEscape ==
  (RunEntered /\ (HasError("create") \/ HasError("read"))) => aborted = "none"

Complete(st) ==
  /\ st.FilesCreated + st.FilesSkipped = Cardinality(FileEntries)
  /\ st.DirsCreated + st.DirsSkipped = Cardinality(DirEntries)

\* C7 as stated: a run that found templates (no fatal abort) ends with
\* every file entry and every directory entry created or skipped.
C7_CompleteUnlessFatal ==
  (RunReturned /\ aborted # "no_templates") => Complete(stats)

\* C7 amended: a run that ends in clean success (Run returns nil) has created
\* or skipped every file entry and every directory entry.
C7_CompleteOnSuccess ==
  (RunReturned /\ result = "nil") => Complete(stats)

\* a run over three files and a directory has returned nil, with files
\* created and files and the directory skipped
C7_Witness ==
  /\ RunReturned /\ result = "nil"
  /\ stats.FilesCreated > 0 /\ stats.FilesSkipped > 0
  /\ stats.DirsSkipped > 0
  /\ Cardinality(FileEntries) = 3

\* C8: when a run that found templates has returned, every asset entry has
\* been handed to processDirectory or processFile exactly once.
C8_EveryEntryOnce ==
  (RunReturned /\ aborted # "no_templates") => \A r \in Entries : visits[r] = 1

\* C9: Run returns nil exactly when there was no fatal abort and the error
\* list is empty, and the process exits with 0 exactly when Run returned nil.
C9_ReturnAndExit ==
  /\ RunReturned =>
       /\ (result = "nil") <=> (aborted # "no_templates" /\ stats.Errors = << >>)
       /\ (result = "nil") => aborted = "none"
  /\ (pc = "Exited" /\ result # "none") =>
       /\ exit \in {0, 1}
       /\ (exit = 0) <=> (result = "nil")

\* a process has exited with status 1 after a run that created entries and
\* then recorded an error
C9_Witness ==
  /\ pc = "Exited" /\ result = "err" /\ exit = 1
  /\ aborted = "walk" /\ stats.Errors # << >>
  /\ Created(stats) > 0

\* C10: while and after a dry-run process runs (validateConfig, then Run),
\* the disk is what it was when the process started.
C10_DryRunLeavesDisk ==
  (cfg.DryRun /\ pc # "NotStarted") => disk = disk0

\* a dry run has ended that reported files and directories as created and
\* none of them exists
C10_Witness ==
  /\ pc = "Exited" /\ cfg.DryRun /\ result = "nil"
  /\ stats.FilesCreated > 0 /\ stats.DirsCreated > 0
  /\ \A r \in Entries : disk[TargetPath(r)].kind = "none"

\* C11: a real run that starts from the disk a dry run started from reports
\* the four counters and the outcome (nil or error) the dry run reported.
C11_DryRunMirrorsRealRun ==
  (RunReturned /\ ~cfg.DryRun /\ prev.ran /\ prev.dry /\ diskRun = prev.disk) =>
    /\ stats.FilesCreated = prev.stats.FilesCreated
    /\ stats.FilesSkipped = prev.stats.FilesSkipped
    /\ stats.DirsCreated = prev.stats.DirsCreated
    /\ stats.DirsSkipped = prev.stats.DirsSkipped
    /\ (result = "nil") <=> (prev.result = "nil")

\* the absolute path lies below the target directory
InsideTarget(p) ==
  /\ Len(p) > Len(AbsTargetDir)
  /\ SubSeq(p, 1, Len(AbsTargetDir)) = AbsTargetDir

\* C12: whatever path the closure of Run is called with, the destination it
\* computes lies strictly inside the target directory, or the closure
\* returns a fatal error without a call on the file system.
C12_DestinationInsideTarget ==
  (call.op = "WalkFn") =>
    \/ InsideTarget(call.dest)
    \/ (call.err # "nil" /\ call.fsCalls = << >>)

\* the path is absolute or holds a ".." element
Unsafe(p) == p[1] = "" \/ \E i \in 1..Len(p) : p[i] = ".."

\* C13: ReadFile and GetFileInfo called with an absolute path or a path
\* with a ".." element return an error and nothing else.
C13_UnsafePathRejected ==
  (call.op \in {"ReadFile", "GetFileInfo"} /\ Unsafe(call.path)) =>
    (call.err # "nil" /\ call.data = "")

\* C14: on a tree without entries HasTemplates is false, Run never starts
\* the walk, and when it has returned it has returned an error with the
\* disk, the statistics, the visits and the summary as they were.
C14_NoTemplatesFatalAndInert ==
  (Entries = {}) =>
    /\ ~HasTemplates(assets)
    /\ pc # "Walking"
    /\ RunReturned =>
         /\ result = "err"
         /\ aborted = "no_templates"
         /\ stats = NoStats
         /\ disk = diskRun
         /\ \A r \in RelPaths : visits[r] = 0
         /\ errlog = << >>
         /\ ~summary.shown

\* a real run on a tree without entries has ended with status 1 in a target
\* directory that holds a .claude directory
C14_Witness ==
  /\ Entries = {}
  /\ pc = "Exited" /\ result = "err" /\ exit = 1
  /\ ~cfg.DryRun
  /\ disk[<<Prefix>>].kind = "dir"

\* C15: after a real run that returned nil, every asset entry exists below
\* .claude in the target directory with the entry's kind, and every file
\* that was not there when the run began holds the bytes of its template.
C15_PersistedLayout ==
  (RunReturned /\ ~cfg.DryRun /\ result = "nil") =>
    \A r \in Entries :
      /\ disk[TargetPath(r)].kind = assets[FullPath(r)]
      /\ (r \in FileEntries /\ diskRun[TargetPath(r)].kind = "none") =>
           disk[TargetPath(r)].content = Body(FullPath(r))

\* a real run over the whole layout has returned nil after creating the
\* directory and files in a target directory without .claude
C15_Witness ==
  /\ RunReturned /\ ~cfg.DryRun /\ result = "nil"
  /\ Cardinality(Entries) = 4
  /\ diskRun[<<Prefix>>].kind = "none"
  /\ stats.FilesCreated = 3 /\ stats.DirsCreated = 1

\* q comes before r when directories come before what they hold and
\* siblings come in the order of their names
Precedes(q, r) ==
  \/ Len(q) < Len(r) /\ SubSeq(r, 1, Len(q)) = q
  \/ \E i \in 1..Len(q) :
       /\ i <= Len(r)
       /\ SubSeq(q, 1, i - 1) = SubSeq(r, 1, i - 1)
       /\ NameIndex(q[i]) < NameIndex(r[i])

\* C16: when an entry is handed to the engine, every entry that comes
\* before it (the directories that hold it, its elder siblings and what
\* they hold) has been handed to the engine already.
C16_ParentFirst ==
  [][\A r \in RelPaths :
       visits'[r] > visits[r] =>
         \A q \in Entries : Precedes(q, r) => visits[q] > 0]_vars

\* a file inside the directory has just been created, after its directory,
\* and the file next to the directory is still to come
C16_Witness ==
  /\ pc = "Walking"
  /\ ~cfg.DryRun
  /\ visits[<<"commands">>] = 1
  /\ visits[<<"commands", "run.sh">>] = 1
  /\ disk[TargetPath(<<"commands", "run.sh">>)].kind = "file"
  /\ diskRun[TargetPath(<<"commands", "run.sh">>)].kind = "none"
  /\ visits[<<"settings.json">>] = 0
  /\ <<"settings.json">> \in Entries

\* no directory on the way to p is a regular file
AncestorsAllow(d, p) ==
  \A i \in 0..(Len(p) - 1) : d[SubSeq(p, 1, i)].kind # "file"

\* d with a directory of mode perm at p and at every missing directory on
\* the way to p
WithDirs(d, p, perm) ==
  [q \in DiskPaths |->
     IF Len(q) <= Len(p) /\ SubSeq(p, 1, Len(q)) = q /\ d[q].kind = "none"
     THEN DirNode(perm) ELSE d[q]]

\* C17 as stated: CreateDir succeeds and changes nothing on a directory,
\* fails and changes nothing on a non-directory, and otherwise creates the
\* directory with every missing intermediate directory.
C17_CreateDirThreeCases ==
  (call.op = "CreateDir") =>
    CASE disk0[call.path].kind = "dir" -> call.err = "nil" /\ disk = disk0
      [] disk0[call.path].kind = "file" -> call.err # "nil" /\ disk = disk0
      [] OTHER -> /\ call.err = "nil"
                  /\ disk = WithDirs(disk0, call.path, call.perm)

\* C17 amended: as stated, except that with nothing at the path the
\* directories are created when no directory on the way is a regular file,
\* and otherwise the call fails and changes nothing.
C17_CreateDirFourCases ==
  (call.op = "CreateDir") =>
    CASE disk0[call.path].kind = "dir" -> call.err = "nil" /\ disk = disk0
      [] disk0[call.path].kind = "file" -> call.err # "nil" /\ disk = disk0
      [] OTHER ->
           IF AncestorsAllow(disk0, call.path)
           THEN /\ call.err = "nil"
                /\ disk = WithDirs(disk0, call.path, call.perm)
           ELSE call.err # "nil" /\ disk = disk0

\* CreateDir has created a directory two levels below a missing .claude
C17_Witness ==
  /\ call.op = "CreateDir" /\ call.err = "nil"
  /\ Len(call.path) = 2
  /\ disk0[<<Prefix>>].kind = "none"
  /\ disk[<<Prefix>>].kind = "dir"
  /\ disk[call.path].kind = "dir"

\* C18: CreateFile succeeds and changes nothing on a file, whatever it
\* holds; fails and changes nothing on a directory; and with nothing at the
\* path makes the parent directory as CreateDir does (failing, with nothing
\* changed, when a non-directory is in the way) and then writes the file
\* with the whole content.
C18_CreateFileCases ==
  (call.op = "CreateFile") =>
    CASE disk0[call.path].kind = "file" -> call.err = "nil" /\ disk = disk0
      [] disk0[call.path].kind = "dir" -> call.err # "nil" /\ disk = disk0
      [] OTHER ->
           IF AncestorsAllow(disk0, call.path)
           THEN /\ call.err = "nil"
                /\ disk = [WithDirs(disk0, Parent(call.path), ExecMode)
                             EXCEPT ![call.path] = FileNode(call.data, call.perm)]
           ELSE call.err # "nil" /\ disk = disk0

\* CreateFile has written a file into a directory it had to make
C18_Witness ==
  /\ call.op = "CreateFile" /\ call.err = "nil"
  /\ Len(call.path) = 3
  /\ disk0[Parent(call.path)].kind = "none"
  /\ disk[Parent(call.path)].kind = "dir"
  /\ disk[call.path] = FileNode("new", DataMode)

\* C19: a run that found templates has shown the summary when it returns,
\* with the totals of its statistics, whether or not entries failed.
C19_SummaryAlwaysShown ==
  (RunReturned /\ aborted # "no_templates") =>
    /\ summary.shown
    /\ summary.created = Created(stats)
    /\ summary.skipped = Skipped(stats)
    /\ summary.errors = Len(stats.Errors)

\* the steps Run has still to take, at most
RunMeasure ==
  CASE pc = "Ready" -> Cardinality(EmbedPaths) + 3
    [] pc = "Walking" -> Len(todo) + 1
    [] OTHER -> 0

\* C20: every step taken while Run executes brings it closer to its
\* return, and once Run is called it returns.
C20_RunReturns ==
  /\ [][(pc = "Ready" \/ pc = "Walking") => RunMeasure' < RunMeasure]_vars
  /\ (pc = "Ready") ~> (pc = "Returned")

\* Run has returned an error after a walk that was cut short behind
\* entries it had created
C20_Witness ==
  /\ pc = "Returned" /\ result = "err"
  /\ aborted = "walk"
  /\ stats.DirsCreated > 0 /\ stats.FilesCreated > 0

\* C21: on every disk and for every path, the dry-run CreateDir and
\* CreateFile return an error exactly when the calls of OSFileSystem would
\* return one on that disk.
C21_DryRunDecidesAsOS ==
  /\ (call.op = "DryRunCreateDir") =>
        ((call.err # "nil") <=>
           (OSCreateDir(disk0, call.path, call.perm).err # "nil"))
  /\ (call.op = "DryRunCreateFile") =>
        ((call.err # "nil") <=>
           (OSCreateFile(disk0, call.path, call.data, call.perm).err # "nil"))

\* C22: whenever Run is about to be called, on a new Engine or on one that
\* has run, the four counters are zero and the error list is empty.
C22_StatsZeroAtRunStart == (pc = "Ready") => (stats = NoStats)

\* the destination of the entry exists with the entry's kind
KindMatch(d, r) ==
  LET info == osStat(d, TargetPath(r))
  IN info.ok /\ (info.isDir = (assets[FullPath(r)] = "dir"))

\* C23: processing an entry whose destination exists with the entry's kind
\* adds one to the skipped counter of that kind and nothing else: the disk,
\* the other three counters and the error list stay, and the only calls
\* made are Exists and Stat on the destination.
C23_SkipFrame ==
  [][(/\ pc = "Walking"
      /\ todo # << >>
      /\ ~Head(todo).err
      /\ Head(todo).path # <<Prefix>>
      /\ KindMatch(disk, TrimPrefix(Head(todo).path)))
     => LET r == TrimPrefix(Head(todo).path)
            isDir == assets[Head(todo).path] = "dir"
        IN /\ stats'.DirsSkipped = stats.DirsSkipped + (IF isDir THEN 1 ELSE 0)
           /\ stats'.FilesSkipped = stats.FilesSkipped + (IF isDir THEN 0 ELSE 1)
           /\ stats'.DirsCreated = stats.DirsCreated
           /\ stats'.FilesCreated = stats.FilesCreated
           /\ stats'.Errors = stats.Errors
           /\ disk' = disk
           /\ fscalls' = fscalls \o <<PortCall("Exists", TargetPath(r)),
                                      PortCall("Stat", TargetPath(r))>>]_vars

\* a real run has skipped a directory and then a file whose content is not
\* the template's
C23_Witness ==
  /\ pc = "Walking" /\ ~cfg.DryRun
  /\ stats.DirsSkipped = 1 /\ stats.FilesSkipped = 1
  /\ Len(fscalls) = 4
  /\ fscalls[4].fn = "Stat"
  /\ disk[fscalls[4].path].content = "user"

\* the number of error lines on stderr that report the entry at path p
Diagnostics(p) == Cardinality({j \in 1..Len(errlog) : errlog[j] = p})

\* C24: when the process has ended, every kind conflict, create failure
\* and read failure the run recorded has been reported by exactly one
\* error line.
C24_OneDiagnosticPerError ==
  (pc = "Exited" /\ result # "none") =>
    \A i \in 1..Len(stats.Errors) :
      stats.Errors[i].kind \in {"conflict", "create", "read"} =>
        Diagnostics(stats.Errors[i].path) = 1

\* the string ends in the given characters
EndsIn(s, suf) == \E n \in 0..Len(s) : SubSeq(s, 1, n) \o suf = s

\* C25: the default mode of a file is 0755 exactly when its relative path
\* ends in ".sh" or ".bash" and 0644 otherwise, the default mode of a
\* directory is 0755, and asking for either changes nothing and cannot fail.
C25_DefaultModes ==
  /\ call.op = "GetDefaultFileMode" =>
        /\ call.perm = IF EndsIn(call.data, ".sh") \/ EndsIn(call.data, ".bash")
                       THEN ExecMode
                       ELSE DataMode
        /\ call.err = "nil"
        /\ disk = disk0
  /\ call.op = "GetDefaultDirMode" =>
        call.perm = ExecMode /\ call.err = "nil" /\ disk = disk0

\* a script path that is nothing but its suffix
C25_Witness ==
  /\ call.op = "GetDefaultFileMode"
  /\ call.data = ".bash"
  /\ call.perm = ExecMode

\* the walk of a run as a function of the assets, the disk and the dry-run
\* flag alone: the entries in walk order, up to the first error returned
RECURSIVE WalkFrom(_, _, _, _)
WalkFrom(dry, a, w, acc) ==
  IF w = << >> \/ acc.failed THEN acc
  ELSE LET e == Head(w)
           o == IF ~e.err /\ e.path = <<Prefix>>
                THEN Outcome(acc.disk, acc.stats, << >>, "nil")
                ELSE WalkFn(dry, a, acc.disk, acc.stats, << >>,
                            TrimPrefix(e.path), a[e.path] = "dir", e.err)
       IN WalkFrom(dry, a, Tail(w),
                   [disk |-> o.disk, stats |-> o.stats,
                    calls |-> acc.calls \o o.calls,
                    failed |-> o.err # "nil"])

\* what a run does and returns, from the same three inputs
RunOf(dry, a, d) ==
  IF ~HasTemplates(a)
  THEN [disk |-> d, stats |-> NoStats, calls |-> << >>, result |-> "err"]
  ELSE LET w == WalkFrom(dry, a, WalkDir(a, <<Prefix>>),
                         [disk |-> d, stats |-> NoStats, calls |-> << >>,
                          failed |-> FALSE])
       IN [disk |-> w.disk, stats |-> w.stats, calls |-> w.calls,
           result |-> runResult(w.failed, w.stats)]

\* C26: the file-system calls of a run, its statistics, the disk it leaves
\* and the value it returns are determined by the assets, the disk at the
\* start of the run and the dry-run flag; Verbose and NoColor have no part
\* in them, so two runs that differ only in these two settings agree.
C26_ReportingDoesNotInterfere ==
  RunReturned =>
    LET r == RunOf(cfg.DryRun, assets, diskRun)
    IN /\ fscalls = r.calls
       /\ stats = r.stats
       /\ disk = r.disk
       /\ result = r.result

\* a verbose run without colours that listed its templates, created files
\* and skipped others
C26_Witness ==
  /\ RunReturned
  /\ cfg.Verbose /\ cfg.NoColor
  /\ listed # << >>
  /\ stats.FilesCreated > 0
  /\ stats.DirsSkipped > 0
  /\ summary.shown /\ ~summary.colored

\* C27: once validateConfig has returned, with or without an error, real
\* or dry-run, every path the target directory held when the process
\* started is still there with its kind, content and mode.
C27_ValidationPreservesTarget ==
  (pc = "Validated" \/ (pc = "Exited" /\ result = "none")) =>
    Preserves(disk0, disk)

\* the path holds a file another process wrote
OtherFile(d, p) == d[p].kind = "file" /\ d[p].content = OtherContent

\* C28: no step of processFile changes a destination file that another
\* process has created, whenever in the course of processFile it did so.
C28_NoOverwriteUnderInterleaving ==
  [][(pc' # pc /\ OtherFile(disk, call.dest)) =>
       disk'[call.dest] = disk[call.dest]]_vars

\* the five statistics added up
Accounted(st) ==
  st.FilesCreated + st.FilesSkipped + st.DirsCreated + st.DirsSkipped
    + Len(st.Errors)

\* C29: when processFile has returned for an entry, exactly one of the five
\* statistics has gone up by one, whichever way it returned, the failure
\* of Stat on a path Exists has just reported included.
C29_EveryEntryAccounted ==
  (pc = "Called" /\ call.op = "processFile") => Accounted(stats) = 1

\* the directories below the target root that are on disk e and were not
\* on disk d
NewDirs(d, e) ==
  {p \in DiskPaths \ {TargetDir} : e[p].kind = "dir" /\ d[p].kind # "dir"}

====
